---- MODULE Spec2Model ----
(***************************************************************************)
(* rotor-stream: the Stream driver of src/src/stream.rs and the            *)
(* Expectation / Protocol interface of src/src/protocol.rs.                *)
(*                                                                         *)
(* One Stream, its host scope (the timer registry), its socket (an         *)
(* environment whose read and write results are unconstrained) and its     *)
(* user protocol (an environment that may consume input, enqueue output    *)
(* and return any Request).  A handler (ready, timeout, wakeup) runs as    *)
(* a sequence of steps, one per loop iteration of StreamImpl::_action;     *)
(* pc holds the handler's position and nothing else is enabled while a     *)
(* handler runs.                                                           *)
(***************************************************************************)
EXTENDS Integers, Sequences, FiniteSets, TLC

\* ------------------------------------------------------------------ bounds
MaxIn == 2      \* longest input buffer the socket fills
MaxOut == 2     \* longest output buffer the protocol builds
MaxTime == 1    \* last instant of the steady clock, in milliseconds
MaxTok == 2     \* timer tokens the host hands out

\* --------------------------------------------------------- protocol inputs
Byte == {0, 1}
Handlers == {0, 1}
Deadlines == 0..MaxTime

\* Expectation, one record shape for the six variants (the fields a variant
\* does not have are 0 / <<>>).
Bytes(num) == [tag |-> "Bytes", num |-> num, delim |-> <<>>, max |-> 0]
BufferEof(max) == [tag |-> "BufferEof", num |-> 0, delim |-> <<>>, max |-> max]
Eof(min) == [tag |-> "Eof", num |-> min, delim |-> <<>>, max |-> 0]
Delimiter(min, delim, max) == [tag |-> "Delimiter", num |-> min, delim |-> delim, max |-> max]
Flush(num) == [tag |-> "Flush", num |-> num, delim |-> <<>>, max |-> 0]
Sleep == [tag |-> "Sleep", num |-> 0, delim |-> <<>>, max |-> 0]

\* The expectations the protocol asks for.
Expectation ==
    {Bytes(0), Bytes(2), BufferEof(1), Eof(1),
     Delimiter(0, <<1, 0>>, 1), Delimiter(1, <<1>>, 1),
     Flush(0), Flush(1), Sleep}

\* Request<M> = Option<(M, Expectation, Deadline)>
Some(m, exp, d) == [some |-> TRUE, fsm |-> m, exp |-> exp, dline |-> d]
None == [some |-> FALSE, fsm |-> 0, exp |-> Sleep, dline |-> 0]
Request == {Some(m, e, d) : m \in Handlers, e \in Expectation, d \in Deadlines} \cup {None}

VARIABLES
    pc,           \* "new", "parked", "write", "outer", "match", "done", "panic", "err"
    now,          \* SteadyTime::now(), in milliseconds
    fsm,          \* Stream.fsm while parked, req.0 inside _action
    expectation,  \* Stream.expectation while parked, req.1 inside _action
    dline,        \* req.2 inside _action (the deadline the protocol asked for)
    deadline,     \* Stream.deadline / StreamImpl.deadline
    timeout,      \* Stream.timeout / StreamImpl.timeout: the timer token held
    inbuf,        \* the input buffer, a sequence of bytes
    outbuf,       \* the output buffer: its length (the engine reads nothing else of it)
    can_write,    \* the local of _action
    timers,       \* the host's registry: the timers registered and not yet fired or cleared
    cancelled,    \* history: the tokens handed to scope.clear_timeout
    nextTok,      \* the next token the host hands out
    last          \* history: what the last step did (callback, its arguments, socket call)

vars == <<pc, now, fsm, expectation, dline, deadline, timeout, inbuf, outbuf,
          can_write, timers, cancelled, nextTok, last>>

\* ------------------------------------------------------------ pure helpers

\* The usize the cast `as u64` produces, kept as wrap * 2^64 + ms: a negative
\* i64 becomes 2^64 + ms.
AsU64(ms) == [wrap |-> IF ms < 0 THEN 1 ELSE 0, ms |-> ms]

\* substr::find_substr(haystack, needle): the index of the first occurrence,
\* -1 for Option::None.
Occurs(haystack, needle, i) ==
    /\ i + Len(needle) <= Len(haystack)
    /\ SubSeq(haystack, i + 1, i + Len(needle)) = needle

find_substr(haystack, needle) ==
    IF \E i \in 0..Len(haystack) : Occurs(haystack, needle, i)
    THEN CHOOSE i \in 0..Len(haystack) :
            /\ Occurs(haystack, needle, i)
            /\ \A j \in 0..(i - 1) : ~Occurs(haystack, needle, j)
    ELSE -1

\* &self.inbuf[min..]
SliceFrom(buf, min) == SubSeq(buf, min + 1, Len(buf))

\* What one read can append: any non-empty chunk that fits the model's buffer.
Chunks(room) == UNION {[1..m -> Byte] : m \in 1..room}

\* IoOp and IoOp::is_done: "true", "false" for Ok(_), "err" for Err(()).
IoOp == {"Done", "NoOp", "Eof", "Error"}

is_done(op) ==
    CASE op = "Done" -> "true"
      [] op = "NoOp" -> "false"
      [] op = "Eof" -> "false"
      [] op = "Error" -> "err"

\* StreamImpl::write on an output buffer of `len` bytes: the socket takes
\* `taken` bytes in all and then the loop ends on `how`.
\*   "empty": the buffer ran empty (Ok(true));  "block": WouldBlock (Ok(len == 0));
\*   "zero": Ok(0) (Err);  "error": any other error (Err).
WriteEnd(len, taken, how) ==
    [left |-> len - taken,
     res |-> CASE how = "empty" -> "true"
               [] how = "block" -> IF len - taken = 0 THEN "true" ELSE "false"
               [] how = "zero" -> "err"
               [] how = "error" -> "err",
     io |-> IF len = 0 THEN "none" ELSE how]

write(len) ==
    {WriteEnd(len, len, "empty")}
    \cup {WriteEnd(len, t, h) : t \in 0..(len - 1), h \in {"block", "zero", "error"}}

\* ------------------------------------------------------------------ history
\* handler: the handler the step belongs to ("new", "ready", "timeout", "wakeup");
\* op: the step (a handler's entry, or the arm of _action that ran);
\* cb, count: the callback the step invoked and the byte count it passed;
\* io: the socket call the step made and how it ended;
\* why: why the step ended the Stream, "" when it did not;
\* quiet: kept for Stream::ready: the invocation has so far run no callback and
\*        none of its socket calls has moved a byte or seen the peer close (reads
\*        would block, writes would block or had nothing to write); TRUE in the
\*        other handlers;
\* fresh: the Stream is as Stream::new built it, no compose has parked it yet;
\* blocked: a write of the handler's invocation has returned WouldBlock.
NoCall == [cb |-> "none", count |-> 0]
Call(cb, count) == [cb |-> cb, count |-> count]
Entries == {"new", "ready", "timeout", "wakeup"}
Ev(op, call, io, why) ==
    [handler |-> IF op \in Entries THEN op ELSE last.handler,
     op |-> op, cb |-> call.cb, count |-> call.count, io |-> io, why |-> why,
     quiet |-> \/ op \in Entries
               \/ last.handler # "ready"
               \/ last.quiet /\ io \in {"none", "NoOp", "block"} /\ call.cb = "none",
     fresh |-> last.fresh,
     blocked |-> (op \notin Entries /\ last.blocked) \/ io = "block"]

\* ------------------------------------------------------------ host scope

\* Scope::clear_timeout(token): the registry without that timer.
clear_timeout(regs, token) == {t \in regs : t.token # token}

\* Scope::timeout_ms(delay), called at `now`: the timer the host registers.
\* It expires at wrap * 2^64 + at.
timeout_ms(token, delay) == [token |-> token, wrap |-> delay.wrap, at |-> now + delay.ms]

\* ------------------------------------------------------------ the socket

\* StreamImpl::read: one read_from on the socket, classified.
read ==
    {[op |-> "Done", data |-> c] : c \in Chunks(MaxIn - Len(inbuf))}
    \cup {[op |-> o, data |-> <<>>] : o \in {"NoOp", "Eof", "Error"}}

\* --------------------------------------------------- StreamImpl::action

\* Mutant of Destroy: Response::done() without scope.clear_timeout(old_timeout).
Destroy_NoCancel(regs, ev) ==
    /\ pc' = "done"
    /\ timers' = regs
    /\ can_write' = FALSE
    /\ last' = ev
    /\ UNCHANGED <<now, deadline, timeout, nextTok, cancelled>>

\* The Err(()) arm of StreamImpl::action: scope.clear_timeout(old_timeout),
\* Response::done().  `regs` is the registry as the handler found it.
Destroy(regs, ev) ==
    /\ pc' = "done"
    /\ timers' = clear_timeout(regs, timeout)
    /\ cancelled' = cancelled \cup {timeout}
    /\ can_write' = FALSE
    /\ last' = ev
    /\ UNCHANGED <<now, deadline, timeout, nextTok>>

\* Stream::compose(self, req, scope), the Ok arm: the Stream is parked.
compose(ev) ==
    /\ last' = [ev EXCEPT !.fresh = FALSE]
    /\ can_write' = FALSE
    /\ UNCHANGED <<now, fsm, expectation, dline>>
    /\ IF dline # deadline
       THEN /\ nextTok <= MaxTok
            /\ cancelled' = cancelled \cup {timeout}
            /\ \E ok \in BOOLEAN :
                 IF ok
                 THEN /\ timers' = clear_timeout(timers, timeout)
                                     \cup {timeout_ms(nextTok, AsU64(dline - now))}
                      /\ timeout' = nextTok
                      /\ nextTok' = nextTok + 1
                      /\ deadline' = dline
                      /\ pc' = "parked"
                 ELSE \* .expect("Can't replace timer")
                      /\ timers' = clear_timeout(timers, timeout)
                      /\ pc' = "panic"
                      /\ UNCHANGED <<timeout, nextTok, deadline>>
       ELSE /\ deadline' = dline
            /\ pc' = "parked"
            /\ UNCHANGED <<timeout, timers, cancelled, nextTok>>

\* Mutant of Returned: the absent Request is not propagated with try!, the
\* engine goes on with the request it had.
Returned_IgnoreAbsent(regs, k, j, r, ev, next, cw) ==
    /\ inbuf' = SubSeq(inbuf, k + 1, Len(inbuf))
    /\ outbuf' = outbuf + j
    /\ fsm' = IF r.some THEN r.fsm ELSE fsm
    /\ expectation' = IF r.some THEN r.exp ELSE expectation
    /\ dline' = IF r.some THEN r.dline ELSE dline
    /\ pc' = next
    /\ can_write' = cw
    /\ timers' = regs
    /\ last' = IF r.some THEN ev ELSE [ev EXCEPT !.why = "absent"]
    /\ UNCHANGED <<now, deadline, timeout, cancelled, nextTok>>

\* A user callback ran with the Transport: it consumed `k` bytes of input,
\* enqueued `j` bytes of output and returned `r`; try!(r.ok_or(())).
Returned(regs, k, j, r, ev, next, cw) ==
    /\ inbuf' = SubSeq(inbuf, k + 1, Len(inbuf))
    /\ outbuf' = outbuf + j
    /\ IF r.some
       THEN /\ fsm' = r.fsm
            /\ expectation' = r.exp
            /\ dline' = r.dline
            /\ pc' = next
            /\ can_write' = cw
            /\ timers' = regs
            /\ last' = ev
            /\ UNCHANGED <<now, deadline, timeout, cancelled, nextTok>>
       ELSE /\ Destroy(regs, [ev EXCEPT !.why = "absent"])
            /\ UNCHANGED <<fsm, expectation, dline>>

\* What the protocol may do in a callback.
Consumes == 0..Len(inbuf)
Enqueues == 0..(MaxOut - outbuf)

\* ------------------------------------------------------------ Stream::new
Stream_new ==
    /\ pc = "new"
    /\ \E registered \in BOOLEAN, r \in Request, ok \in BOOLEAN :
         IF ~registered
         THEN /\ pc' = "err"
              /\ last' = Ev("new", NoCall, "none", "register")
              /\ UNCHANGED <<now, fsm, expectation, dline, deadline, timeout, inbuf,
                             outbuf, can_write, timers, cancelled, nextTok>>
         ELSE IF ~r.some
         THEN /\ pc' = "err"
              /\ last' = Ev("new", Call("create", 0), "none", "ProtocolStop")
              /\ UNCHANGED <<now, fsm, expectation, dline, deadline, timeout, inbuf,
                             outbuf, can_write, timers, cancelled, nextTok>>
         ELSE IF ~ok
         THEN \* .expect("Can't insert timer")
              /\ pc' = "panic"
              /\ last' = Ev("new", Call("create", 0), "none", "Can't insert timer")
              /\ UNCHANGED <<now, fsm, expectation, dline, deadline, timeout, inbuf,
                             outbuf, can_write, timers, cancelled, nextTok>>
         ELSE /\ pc' = "parked"
              /\ fsm' = r.fsm
              /\ expectation' = r.exp
              /\ dline' = r.dline
              /\ deadline' = r.dline
              /\ timers' = timers \cup {timeout_ms(nextTok, AsU64(r.dline - now))}
              /\ timeout' = nextTok
              /\ nextTok' = nextTok + 1
              /\ inbuf' = <<>>
              /\ outbuf' = 0
              /\ last' = [Ev("new", Call("create", 0), "none", "") EXCEPT !.fresh = TRUE]
              /\ UNCHANGED <<now, can_write, cancelled>>

\* ----------------------------------------------- Machine for Stream

\* Mutant of Stream_ready: the request carries Deadline::now(), not the
\* deadline the Stream holds.
Stream_ready_DeadlineNow ==
    /\ pc = "parked"
    /\ pc' = "write"
    /\ dline' = now
    /\ last' = Ev("ready", NoCall, "none", "")
    /\ UNCHANGED <<now, fsm, expectation, deadline, timeout, inbuf, outbuf,
                   can_write, timers, cancelled, nextTok>>

\* ready: decompose, imp.action(Some((fsm, exp, deadline)), scope).
Stream_ready ==
    /\ pc = "parked"
    /\ pc' = "write"
    /\ dline' = deadline
    /\ last' = Ev("ready", NoCall, "none", "")
    /\ UNCHANGED <<now, fsm, expectation, deadline, timeout, inbuf, outbuf,
                   can_write, timers, cancelled, nextTok>>

\* Mutant of Stream_timeout: no comparison of Deadline::now() with self.deadline.
Stream_timeout_NoCheck(t) ==
    /\ pc = "parked"
    /\ t \in timers
    /\ t.wrap = 0
    /\ \E k \in Consumes, j \in Enqueues, r \in Request :
         Returned(timers \ {t}, k, j, r,
                  Ev("timeout", Call("timeout", 0), "none", ""), "write", FALSE)

\* timeout: the host's one-shot timer `t` fires (possibly early) and the host
\* calls the machine.
Stream_timeout(t) ==
    /\ pc = "parked"
    /\ t \in timers
    /\ t.wrap = 0
    /\ IF now >= deadline
       THEN \E k \in Consumes, j \in Enqueues, r \in Request :
              Returned(timers \ {t}, k, j, r,
                       Ev("timeout", Call("timeout", 0), "none", ""), "write", FALSE)
       ELSE \* Spurious timeouts are possible: Response::ok(self)
            /\ timers' = timers \ {t}
            /\ last' = Ev("timeout", NoCall, "none", "")
            /\ UNCHANGED <<pc, now, fsm, expectation, dline, deadline, timeout, inbuf,
                           outbuf, can_write, cancelled, nextTok>>

\* wakeup: fsm.wakeup, then imp.action(res, scope).
Stream_wakeup ==
    /\ pc = "parked"
    /\ \E k \in Consumes, j \in Enqueues, r \in Request :
         Returned(timers, k, j, r,
                  Ev("wakeup", Call("wakeup", 0), "none", ""), "write", FALSE)

\* ------------------------------------------------- StreamImpl::_action

\* Mutant of WriteStep: a write that would block returns the Stream parked.
WriteStep_ParkOnBlock(next) ==
    \E w \in write(outbuf) :
      /\ inbuf' = inbuf
      /\ outbuf' = w.left
      /\ IF w.res = "err"
         THEN /\ Destroy(timers, Ev(pc, NoCall, w.io, "write_" \o w.io))
              /\ UNCHANGED <<fsm, expectation, dline>>
         ELSE IF w.res = "false"
         THEN compose(Ev(pc, NoCall, w.io, ""))
         ELSE /\ can_write' = TRUE
              /\ pc' = next
              /\ last' = Ev(pc, NoCall, w.io, "")
              /\ UNCHANGED <<now, fsm, expectation, dline, deadline, timeout, timers,
                             cancelled, nextTok>>

\* try!(self.write()) on entry (req is Some here: every handler that gets
\* the absent Request ends in the step of its callback).
WriteStep(next) ==
    \E w \in write(outbuf) :
      /\ inbuf' = inbuf
      /\ outbuf' = w.left
      /\ IF w.res = "err"
         THEN /\ Destroy(timers, Ev(pc, NoCall, w.io, "write_" \o w.io))
              /\ UNCHANGED <<fsm, expectation, dline>>
         ELSE /\ can_write' = (w.res = "true")
              /\ pc' = next
              /\ last' = [Ev(pc, NoCall, w.io, "") EXCEPT !.quiet = @ /\ (last.handler = "ready" => w.left = outbuf)]
              /\ UNCHANGED <<now, fsm, expectation, dline, deadline, timeout, timers,
                             cancelled, nextTok>>

ActionWrite ==
    /\ pc = "write"
    /\ WriteStep("outer")

\* Mutant of OuterWrite: the loop does not write before it looks at the
\* expectation.
OuterWrite_NoWrite ==
    /\ pc = "outer"
    /\ pc' = "match"
    /\ last' = Ev("outer", NoCall, "none", "")
    /\ UNCHANGED <<now, fsm, expectation, dline, deadline, timeout, inbuf, outbuf,
                   can_write, timers, cancelled, nextTok>>

\* 'outer: loop { if can_write { can_write = try!(self.write()); } match req.1
OuterWrite ==
    /\ pc = "outer"
    /\ IF can_write
       THEN WriteStep("match")
       ELSE /\ pc' = "match"
            /\ last' = Ev("outer", NoCall, "none", "")
            /\ UNCHANGED <<now, fsm, expectation, dline, deadline, timeout, inbuf, outbuf,
                           can_write, timers, cancelled, nextTok>>

\* req = try!(req.0.bytes_read(&mut self.transport(), num, scope).ok_or(()));
\* continue 'outer
bytes_read(num, io) ==
    \E k \in Consumes, j \in Enqueues, r \in Request :
      Returned(timers, k, j, r,
               Ev(expectation.tag, Call("bytes_read", num), io, ""), "outer", can_write)

\* The read of the Bytes and Delimiter arms:
\* if !try!(self.read().is_done()) { return Ok(Stream::compose(self, req, scope)); }
ReadOrPark ==
    \E rd \in read :
      /\ inbuf' = inbuf \o rd.data
      /\ outbuf' = outbuf
      /\ CASE is_done(rd.op) = "err" ->
                /\ Destroy(timers, Ev(expectation.tag, NoCall, rd.op, "read_error"))
                /\ UNCHANGED <<fsm, expectation, dline>>
           [] is_done(rd.op) = "true" ->
                /\ last' = Ev(expectation.tag, NoCall, rd.op, "")
                /\ UNCHANGED <<pc, now, fsm, expectation, dline, deadline, timeout,
                               can_write, timers, cancelled, nextTok>>
           [] is_done(rd.op) = "false" ->
                compose(Ev(expectation.tag, NoCall, rd.op, ""))

\* The read of the Eof and BufferEof arms: match self.read() { ... }
ReadOrEof ==
    \E rd \in read :
      CASE rd.op = "Eof" -> bytes_read(Len(inbuf), rd.op)
        [] rd.op = "Done" ->
             /\ inbuf' = inbuf \o rd.data
             /\ last' = Ev(expectation.tag, NoCall, rd.op, "")
             /\ UNCHANGED <<pc, now, fsm, expectation, dline, deadline, timeout, outbuf,
                            can_write, timers, cancelled, nextTok>>
        [] rd.op = "Error" ->
             /\ Destroy(timers, Ev(expectation.tag, NoCall, rd.op, "read_error"))
             /\ UNCHANGED <<fsm, expectation, dline, inbuf, outbuf>>
        [] rd.op = "NoOp" ->
             /\ compose(Ev(expectation.tag, NoCall, rd.op, ""))
             /\ UNCHANGED <<inbuf, outbuf>>

\* Mutant of BytesArm: inbuf.len() > num for inbuf.len() >= num.
BytesArm_Strict ==
    /\ pc = "match"
    /\ expectation.tag = "Bytes"
    /\ IF Len(inbuf) > expectation.num
       THEN bytes_read(expectation.num, "none")
       ELSE ReadOrPark

\* Bytes(num) => loop { ... }
BytesArm ==
    /\ pc = "match"
    /\ expectation.tag = "Bytes"
    /\ IF Len(inbuf) >= expectation.num
       THEN bytes_read(expectation.num, "none")
       ELSE ReadOrPark

\* Mutant of DelimiterFound: the search runs over the whole buffer, not over
\* inbuf[min..].
DelimiterFound_WholeBuffer(min, delim) ==
    IF Len(inbuf) > min THEN find_substr(inbuf, delim) ELSE -1

\* The Option<usize> the Delimiter arm computes (-1 for None).
DelimiterFound(min, delim) ==
    IF Len(inbuf) > min THEN find_substr(SliceFrom(inbuf, min), delim) ELSE -1

\* Mutant of DelimiterArm: the size limit is tested before the search.
DelimiterArm_LimitFirst ==
    /\ pc = "match"
    /\ expectation.tag = "Delimiter"
    /\ LET num == DelimiterFound(expectation.num, expectation.delim) IN
       IF Len(inbuf) > expectation.max
       THEN /\ Destroy(timers, Ev("Delimiter", NoCall, "none", "delimiter_max"))
            /\ UNCHANGED <<fsm, expectation, dline, inbuf, outbuf>>
       ELSE IF num >= 0
       THEN bytes_read(num, "none")
       ELSE ReadOrPark

\* Delimiter(min, delim, max) => loop { ... }
DelimiterArm ==
    /\ pc = "match"
    /\ expectation.tag = "Delimiter"
    /\ LET num == DelimiterFound(expectation.num, expectation.delim) IN
       IF num >= 0
       THEN bytes_read(num, "none")
       ELSE IF Len(inbuf) > expectation.max
       THEN /\ Destroy(timers, Ev("Delimiter", NoCall, "none", "delimiter_max"))
            /\ UNCHANGED <<fsm, expectation, dline, inbuf, outbuf>>
       ELSE ReadOrPark

\* Mutant of EofArm: inbuf.len() >= min for inbuf.len() > min.
EofArm_NonStrict ==
    /\ pc = "match"
    /\ expectation.tag = "Eof"
    /\ IF Len(inbuf) >= expectation.num
       THEN bytes_read(Len(inbuf), "none")
       ELSE ReadOrEof

\* Mutant of EofArm: the socket is read before the buffer is looked at.
EofArm_ReadFirst ==
    /\ pc = "match"
    /\ expectation.tag = "Eof"
    /\ ReadOrEof

\* Eof(min) => loop { ... }
EofArm ==
    /\ pc = "match"
    /\ expectation.tag = "Eof"
    /\ IF Len(inbuf) > expectation.num
       THEN bytes_read(Len(inbuf), "none")
       ELSE ReadOrEof

\* Mutant of BufferEofArm: no test of inbuf.len() against max.
BufferEofArm_NoLimit ==
    /\ pc = "match"
    /\ expectation.tag = "BufferEof"
    /\ ReadOrEof

\* BufferEof(max) => loop { ... }
BufferEofArm ==
    /\ pc = "match"
    /\ expectation.tag = "BufferEof"
    /\ IF Len(inbuf) > expectation.max
       THEN /\ Destroy(timers, Ev("BufferEof", NoCall, "none", "buffereof_max"))
            /\ UNCHANGED <<fsm, expectation, dline, inbuf, outbuf>>
       ELSE ReadOrEof

\* Mutant of FlushArm: outbuf.len() < num for outbuf.len() <= num.
FlushArm_Strict ==
    /\ pc = "match"
    /\ expectation.tag = "Flush"
    /\ IF outbuf < expectation.num
       THEN \E k \in Consumes, j \in Enqueues, r \in Request :
              Returned(timers, k, j, r,
                       Ev("Flush", Call("bytes_flushed", 0), "none", ""), "outer", can_write)
       ELSE /\ compose(Ev("Flush", NoCall, "none", ""))
            /\ UNCHANGED <<inbuf, outbuf>>

\* Flush(num) => { ... }
FlushArm ==
    /\ pc = "match"
    /\ expectation.tag = "Flush"
    /\ IF outbuf <= expectation.num
       THEN \E k \in Consumes, j \in Enqueues, r \in Request :
              Returned(timers, k, j, r,
                       Ev("Flush", Call("bytes_flushed", 0), "none", ""), "outer", can_write)
       ELSE /\ compose(Ev("Flush", NoCall, "none", ""))
            /\ UNCHANGED <<inbuf, outbuf>>

\* Sleep => return Ok(Stream::compose(self, req, scope))
SleepArm ==
    /\ pc = "match"
    /\ expectation.tag = "Sleep"
    /\ compose(Ev("Sleep", NoCall, "none", ""))
    /\ UNCHANGED <<inbuf, outbuf>>

\* ------------------------------------------------------------ the clock
Tick ==
    /\ pc \in {"new", "parked"}
    /\ now < MaxTime
    /\ now' = now + 1
    /\ UNCHANGED <<pc, fsm, expectation, dline, deadline, timeout, inbuf, outbuf,
                   can_write, timers, cancelled, nextTok, last>>

\* ------------------------------------------------------- specification
Init ==
    /\ pc = "new"
    /\ now = 0
    /\ fsm = 0
    /\ expectation = Sleep
    /\ dline = 0
    /\ deadline = 0
    /\ timeout = 0
    /\ inbuf = <<>>
    /\ outbuf = 0
    /\ can_write = FALSE
    /\ timers = {}
    /\ cancelled = {}
    /\ nextTok = 1
    /\ last = [handler |-> "new", op |-> "init", cb |-> "none", count |-> 0,
               io |-> "none", why |-> "", quiet |-> TRUE, fresh |-> TRUE,
               blocked |-> FALSE]

Next ==
    \/ Stream_new
    \/ Stream_ready
    \/ \E t \in timers : Stream_timeout(t)
    \/ Stream_wakeup
    \/ ActionWrite
    \/ OuterWrite
    \/ BytesArm
    \/ DelimiterArm
    \/ EofArm
    \/ BufferEofArm
    \/ FlushArm
    \/ SleepArm
    \/ Tick

Spec == Init /\ [][Next]_vars

\* ================================================================ claims

\* The host holds a live timer for the deadline the Stream holds.
TimerArmed == \E t \in timers : t.token = timeout /\ t.wrap = 0 /\ t.at = deadline

\* The token the Stream holds went to scope.clear_timeout and is off the registry.
TimerCancelled == timeout \in cancelled /\ \A t \in timers : t.token # timeout

\* The step taken is a timer firing into Stream::timeout.
TimeoutStep == pc = "parked" /\ last'.op = "timeout" /\ timers' # timers

\* C1: when the Delimiter arm gives up (inbuf.len() > max and no needle in
\* inbuf[offset..]) the protocol's delimiter_not_found hook has been invoked,
\* and the Stream is destroyed only if the hook returned the absent Request.
C1_DelimiterNotFoundInvoked ==
    (last.op = "Delimiter" /\ pc = "done" /\ last.cb # "bytes_read" /\ last.io = "none")
        => (last.cb = "delimiter_not_found" /\ last.why = "absent")

\* C2: a zero-byte read (peer half-close) under an unsatisfied Bytes or
\* Delimiter expectation is a read error: the Stream is destroyed and its
\* timer cancelled, not parked.
C2_HalfCloseFailsBytesAndDelimiter ==
    (last.op \in {"Bytes", "Delimiter"} /\ last.io = "Eof")
        => (pc = "done" /\ TimerCancelled)

\* C3: a callback (bytes_read, bytes_flushed, timeout, wakeup) that returns
\* the absent Request ends the Stream in that very step: the Stream is
\* destroyed, its timer cancelled, none of the pending output is handed to
\* the socket, and nothing happens to a destroyed Stream afterwards.
C3_AbsentRequestDestroys ==
    /\ [](last.why = "absent" =>
            /\ pc = "done"
            /\ TimerCancelled
            /\ last.cb \in {"bytes_read", "bytes_flushed", "timeout", "wakeup"})
    /\ [][(last'.why = "absent" /\ pc # "done") => outbuf' >= outbuf]_vars
    /\ [][pc = "done" => UNCHANGED vars]_vars

C3_Witness ==
    /\ pc = "done"
    /\ last.why = "absent"
    /\ last.cb = "bytes_flushed"
    /\ outbuf > 0

\* C4: whatever destroys the Stream during ready, timeout or wakeup, the
\* timer token it holds has been handed to the host's cancel operation.
C4_DestroyedCancelsTimer ==
    pc = "done" => TimerCancelled

C4_Witness ==
    /\ pc = "done"
    /\ last.why = "write_zero"
    /\ timeout = 2
    /\ cancelled = {1, 2}

\* C5: an invocation that began with a timeout at or after the deadline (the
\* timeout callback was called) and ended parked leaves a live timer
\* registered for the deadline the Stream now holds.
C5_TimeoutLeavesTimerArmed ==
    (pc = "parked" /\ last.handler = "timeout" /\ last.op # "timeout") => TimerArmed

\* C6: a timeout delivered before the deadline invokes no callback, touches
\* the socket in no way and returns the Stream unchanged; hence the timeout
\* callback is never invoked before the deadline.
C6_SpuriousTimeoutUnchanged ==
    [][TimeoutStep =>
        /\ now < deadline =>
             /\ last'.cb = "none"
             /\ last'.io = "none"
             /\ pc' = "parked"
             /\ UNCHANGED <<fsm, expectation, deadline, timeout, inbuf, outbuf>>
        /\ last'.cb = "timeout" => now >= deadline]_vars

C6_Witness ==
    /\ pc = "parked"
    /\ last.op = "timeout"
    /\ last.cb = "none"
    /\ now < deadline
    /\ inbuf # <<>>
    /\ outbuf > 0

\* C7: after a timeout that arrived before the deadline a timer expiring at
\* the Stream's deadline is registered with the host.
C7_SpuriousTimeoutRearmed ==
    (pc = "parked" /\ last.op = "timeout" /\ last.cb = "none") => TimerArmed

\* C8: in every parked state at most one timer is registered and it expires
\* at the deadline the Stream holds; parking with a different deadline
\* cancels the old timer and registers exactly one new one, parking with the
\* same deadline leaves the token alone.
C8_ParkedTimerMatchesDeadline ==
    /\ [](pc = "parked" =>
            /\ Cardinality(timers) <= 1
            /\ \A t \in timers : t.token = timeout /\ t.wrap = 0 /\ t.at = deadline)
    /\ [][(pc = "match" /\ pc' = "parked") =>
            IF dline # deadline
            THEN /\ timeout \in cancelled'
                 /\ timeout' # timeout
                 /\ timers' = {t \in timers' : t.token = timeout'}
                 /\ Cardinality(timers') = 1
            ELSE UNCHANGED <<timeout, timers, cancelled>>]_vars

\* C9: bytes_read for Bytes(n) is invoked with inbuf.len() >= n and reports
\* exactly n; and whenever Bytes(n) is inspected with inbuf.len() >= n
\* (Bytes(0), or Bytes(n) returned again with nothing consumed) the callback
\* is invoked without a read being attempted.
C9_BytesReportsRequestedCount ==
    [][(pc = "match" /\ expectation.tag = "Bytes") =>
        /\ last'.cb = "bytes_read" =>
             /\ Len(inbuf) >= expectation.num
             /\ last'.count = expectation.num
        /\ Len(inbuf) >= expectation.num =>
             /\ last'.cb = "bytes_read"
             /\ last'.io = "none"]_vars

C9_Witness ==
    /\ last.op = "Bytes"
    /\ last.cb = "bytes_read"
    /\ last.count = 2
    /\ pc = "outer"
    /\ expectation = Bytes(2)
    /\ Len(inbuf) = 2

ParksUnchanged ==
    /\ last'.cb = "none"
    /\ expectation' = expectation
    /\ fsm' = fsm
    /\ inbuf' = inbuf
    /\ outbuf' = outbuf
    /\ pc' \in {"parked", "panic"}
    /\ dline = deadline => pc' = "parked"

\* C11: under BufferEof(max) bytes_read is invoked only when the read reports
\* the peer's half-close, only with inbuf.len() <= max, and with the whole
\* buffer length as its count; when the buffer is longer than max the Stream
\* is destroyed without a socket call and without any user callback.
C11_BufferEofReportsWholeBuffer ==
    [][(pc = "match" /\ expectation.tag = "BufferEof") =>
        /\ last'.cb = "bytes_read" =>
             /\ last'.io = "Eof"
             /\ Len(inbuf) <= expectation.max
             /\ last'.count = Len(inbuf)
        /\ last'.io = "Eof" => last'.cb = "bytes_read"
        /\ Len(inbuf) > expectation.max =>
             /\ pc' = "done"
             /\ last'.cb = "none"
             /\ last'.io = "none"]_vars

C11_Witness ==
    /\ last.op = "BufferEof"
    /\ last.cb = "bytes_read"
    /\ last.io = "Eof"
    /\ last.count = 1
    /\ pc = "outer"

\* C12: under Eof(min) bytes_read is invoked exactly when inbuf.len() > min
\* (strictly) or the read reports the peer's half-close (with any amount
\* buffered, zero included), with the buffer length as its count; with
\* inbuf.len() <= min and a read that would block the Stream parks with
\* Eof(min) unchanged.
C12_EofReportsOnStrictMinOrHalfClose ==
    [][(pc = "match" /\ expectation.tag = "Eof") =>
        /\ last'.cb = "bytes_read" <=>
             (Len(inbuf) > expectation.num \/ last'.io = "Eof")
        /\ last'.cb = "bytes_read" => last'.count = Len(inbuf)
        /\ Len(inbuf) > expectation.num => last'.io = "none"
        /\ (Len(inbuf) <= expectation.num /\ last'.io = "NoOp") => ParksUnchanged]_vars

C12_Witness ==
    /\ last.op = "Eof"
    /\ last.cb = "bytes_read"
    /\ last.io = "Eof"
    /\ last.count = 0
    /\ pc = "outer"

\* C13: under Flush(n) bytes_flushed is invoked only when outbuf.len() <= n,
\* and then at once, with no socket call in the arm; while outbuf.len() > n
\* after the write attempt the Stream parks with Flush(n) unchanged; every
\* invocation starts by draining the output buffer into the socket, so
\* bytes_flushed fires in the first invocation whose writes bring
\* outbuf.len() down to n or less.
C13_FlushFiresAtThreshold ==
    [][/\ (pc = "match" /\ last'.cb = "bytes_flushed") =>
             /\ expectation.tag = "Flush"
             /\ outbuf <= expectation.num
       /\ (pc = "match" /\ expectation.tag = "Flush") =>
             /\ last'.io = "none"
             /\ outbuf <= expectation.num => last'.cb = "bytes_flushed"
             /\ outbuf > expectation.num => ParksUnchanged
       /\ (pc = "write" /\ outbuf > 0) =>
             /\ last'.io \in {"empty", "block", "zero", "error"}
             /\ pc' \in {"outer", "done"}
             /\ pc' = "outer" => (outbuf' = 0 \/ last'.io = "block")]_vars

C13_Witness ==
    /\ last.handler = "ready"
    /\ last.op = "Flush"
    /\ last.cb = "bytes_flushed"
    /\ ~can_write
    /\ pc = "outer"

\* C14: a failure of Stream::new is surfaced as an error value and no Stream
\* is produced: when the host refuses the timer registration new returns
\* TimerError, as it returns ProtocolStop when create returns the absent
\* Request; new never ends the process.
C14_NewFailuresAreErrorValues ==
    last.op = "new" => pc \in {"parked", "err"}

\* C20: at every timer registration (Stream::new and Stream::compose) the
\* delay handed to the host is the distance from now to the new deadline in
\* whole milliseconds, and 0 (never a wrapped unsigned value) when the
\* deadline is at or before now.
C20_DelayIsDistanceToDeadline ==
    [][\A t \in timers' \ timers :
         /\ t.wrap = 0
         /\ t.at = IF deadline' >= now THEN deadline' ELSE now]_vars

\* The step belongs to an invocation of Stream::ready on a parked Stream: the
\* handler's entry or a step of the action it runs.
ReadyStep ==
    \/ pc = "parked" /\ last'.op = "ready"
    \/ pc \in {"write", "outer", "match"} /\ last.handler = "ready"

\* Up to this step nothing has changed at the socket, and in this step reads
\* and writes would block.
NothingChanged ==
    /\ pc = "parked" \/ last.quiet
    /\ last'.io \in {"none", "NoOp", "block"}
    /\ pc \in {"write", "outer"} => outbuf' = outbuf

\* No callback, no timer traffic, the Stream as it was.
StreamUntouched ==
    /\ last'.cb = "none"
    /\ UNCHANGED <<fsm, expectation, deadline, timeout, inbuf, outbuf, timers, cancelled>>
    /\ pc' \in {"write", "outer", "match", "parked"}
    /\ pc = "match" => pc' = "parked"

\* C15 as stated: ready on any parked Stream, with reads and writes that would
\* block and no new bytes, invokes no user callback, cancels and registers no
\* timer, and returns the Stream parked with the same expectation, deadline,
\* timer token and buffers.
C15_ReadyIdempotentOnAnyParked ==
    [][(ReadyStep /\ NothingChanged) => StreamUntouched]_vars

\* C15, amended: the same for a Stream that an earlier invocation of the
\* action parked through compose.  (A Stream fresh from Stream::new has never
\* had its expectation looked at: its first ready invokes bytes_read for
\* Bytes(0) and bytes_flushed for Flush(n) with the socket untouched.)
C15_ReadyIdempotentOnceParkedByAction ==
    [][(ReadyStep /\ NothingChanged /\ ~last.fresh) => StreamUntouched]_vars

C15_Witness ==
    /\ pc = "parked"
    /\ last.handler = "ready"
    /\ last.op = "Bytes"
    /\ last.io = "NoOp"
    /\ last.quiet
    /\ outbuf > 0
    /\ nextTok = 2

\* The expectations that wait for input.
ReadSide == {"Bytes", "Delimiter", "Eof", "BufferEof"}

\* C16: a write that would block never parks the Stream by itself: the action
\* goes on to the expectation, and under Bytes, Delimiter, Eof and BufferEof
\* the Stream parks only after a read that could not progress; a write of zero
\* bytes, or any other write error, destroys the Stream without a user
\* callback.
C16_WouldBlockWriteDoesNotPark ==
    [][/\ (pc \in {"write", "outer"} /\ last'.io = "block") =>
             /\ pc' = (IF pc = "write" THEN "outer" ELSE "match")
             /\ ~can_write'
             /\ last'.cb = "none"
       /\ (pc \in {"write", "outer"} /\ last'.io \in {"zero", "error"}) =>
             /\ pc' = "done"
             /\ last'.cb = "none"
       /\ (pc = "match" /\ expectation.tag \in ReadSide /\ pc' \in {"parked", "panic"}) =>
             last'.io \in {"NoOp", "Eof"}]_vars

C16_Witness ==
    /\ last.op = "Bytes"
    /\ last.cb = "bytes_read"
    /\ last.blocked
    /\ outbuf > 0
    /\ pc = "outer"

\* The needle lies whole in the buffer at an index at or after the offset.
NeedlePresent ==
    \E i \in expectation.num..Len(inbuf) : Occurs(inbuf, expectation.delim, i)

\* The expectation can be met from the bytes the input buffer holds.
Satisfiable ==
    CASE expectation.tag = "Bytes" -> Len(inbuf) >= expectation.num
      [] expectation.tag = "Delimiter" -> NeedlePresent
      [] expectation.tag = "Eof" -> Len(inbuf) > expectation.num
      [] OTHER -> FALSE

\* C17: no read is attempted while the expectation can be met from the input
\* buffer (Bytes(n) with inbuf.len() >= n, Delimiter with the needle at or
\* after the offset, Eof(min) with inbuf.len() > min): the callback is invoked
\* first, so a chain of expectations that one read satisfies takes one read.
C17_NoReadWhileSatisfiable ==
    [][(pc = "match" /\ Satisfiable) =>
        /\ last'.io = "none"
        /\ last'.cb = "bytes_read"]_vars

C17_Witness ==
    /\ last.op = "Delimiter"
    /\ last.cb = "bytes_read"
    /\ last.io = "none"
    /\ pc = "outer"
    /\ expectation = Eof(1)
    /\ Len(inbuf) = 2

\* C18: whenever the action returns the Stream parked, the output buffer is
\* empty or a write attempt of that invocation returned would-block.
C18_NoOutputStrandedAtPark ==
    (pc = "parked" /\ last.op \notin Entries \cup {"init"}) =>
        (outbuf = 0 \/ last.blocked)

C18_Witness ==
    /\ pc = "parked"
    /\ last.op = "Sleep"
    /\ last.blocked
    /\ outbuf = 2

\* C19: under Delimiter(offset, needle, max) a match takes priority over the
\* size limit (the callback fires even with inbuf.len() > max), the Stream is
\* given up only with inbuf.len() > max and no match, and a read is attempted
\* only with no match and inbuf.len() <= max (max counts the offset bytes, and
\* an offset at or past the end of the buffer is no match).
C19_DelimiterMatchBeforeLimit ==
    [][(pc = "match" /\ expectation.tag = "Delimiter") =>
        /\ NeedlePresent =>
             /\ last'.cb = "bytes_read"
             /\ last'.io = "none"
        /\ (~NeedlePresent /\ Len(inbuf) > expectation.max) =>
             /\ pc' = "done"
             /\ last'.why = "delimiter_max"
             /\ last'.io = "none"
        /\ (~NeedlePresent /\ Len(inbuf) <= expectation.max) => last'.io \in IoOp
        /\ last'.cb = "bytes_read" => NeedlePresent]_vars

C19_Witness ==
    /\ last.op = "Delimiter"
    /\ last.cb = "bytes_read"
    /\ Len(inbuf) = 2
    /\ pc = "outer"

====
